---------------------------- MODULE Spec2Model ----------------------------
(***************************************************************************)
(* A model of booking_app.py: the StudyBookingSystem class (the bookings   *)
(* DataFrame, the Google Sheet behind it, the date derivation, the         *)
(* availability queries, book_participant / cancel_booking /               *)
(* reset_all_bookings / _load_bookings_from_sheet) and the Streamlit       *)
(* handlers that call it.                                                  *)
(*                                                                         *)
(* Dates are datetime.date values, modelled by their proleptic Gregorian   *)
(* ordinal (date.toordinal()); timedelta arithmetic is integer arithmetic  *)
(* on ordinals.  A date written to a record is the text produced by        *)
(* strftime('%Y-%m-%d'); the text is modelled by the triple <<Y, M, D>> of *)
(* its three zero-padded fields, so two texts are equal exactly when the   *)
(* triples are.  strptime parses the triple back to an ordinal.            *)
(***************************************************************************)
EXTENDS Integers, Sequences, FiniteSets, TLC

VARIABLES
    sheet,      \* the module-level `sheet`: TRUE = a worksheet, FALSE = None
    sheetRows,  \* the data rows of the worksheet (below the header row)
    bookings,   \* StudyBookingSystem.bookings, the in-memory DataFrame rows
    ret,        \* what the last call returned: (success, message)
    form,       \* per browser session: the booking form's script-run state
    thr,        \* per thread: position inside a running book_participant
    header,     \* row 1 of the worksheet holds the column names
    other       \* the bookings of a second StudyBookingSystem on the worksheet

vars == <<sheet, sheetRows, bookings, ret, form, thr, header, other>>

---------------------------------------------------------------------------
(* Bounds of the model *)

\* the in-memory bookings hold at most this many rows
MaxBookings == 3

\* a session picks among the first MaxPick dates the selectbox offers
MaxPick == 1

\* the anchor dates passed to the derivation functions are 2025-05-01 and the
\* MaxAnchor days after it
MaxAnchor == 34

\* the worksheet holds at most this many bookings when the system is
\* constructed on it
MaxStored == 3

PIDs == {"P001", "P002"}
Groups == {"WEDNESDAY", "SATURDAY"}
Times == {"Daytime", "Evening"}
Reasons == {"r1", "r2"}
Sessions == {"s1", "s2"}
Threads == {"t1", "t2"}

---------------------------------------------------------------------------
(* datetime.date: ordinals, weekday, strftime / strptime *)

IsLeap(y) == y % 4 = 0 /\ (y % 100 # 0 \/ y % 400 = 0)

DaysInMonth(leap, m) ==
    IF m = 2 THEN (IF leap THEN 29 ELSE 28)
    ELSE IF m \in {4, 6, 9, 11} THEN 30 ELSE 31

RECURSIVE DaysBeforeMonth(_, _)
DaysBeforeMonth(leap, m) ==
    IF m = 1 THEN 0 ELSE DaysBeforeMonth(leap, m - 1) + DaysInMonth(leap, m - 1)

DaysBeforeYear(y) ==
    ((y - 1) * 365) + ((y - 1) \div 4) - ((y - 1) \div 100) + ((y - 1) \div 400)

\* datetime(y, m, d).date() as an ordinal
Ymd2Ord(y, m, d) == DaysBeforeYear(y) + DaysBeforeMonth(IsLeap(y), m) + d

\* the (year, month, day) of an ordinal, as CPython's _ord2ymd computes it
Ord2Ymd(o) ==
    LET n0   == o - 1
        n400 == n0 \div 146097
        r400 == n0 % 146097
        n100 == r400 \div 36524
        r100 == r400 % 36524
        n4   == r100 \div 1461
        r4   == r100 % 1461
        n1   == r4 \div 365
        n    == r4 % 365
        year == (n400 * 400) + 1 + (n100 * 100) + (n4 * 4) + n1
        leap == n1 = 3 /\ (n4 # 24 \/ n100 = 3)
        m0   == (n + 50) \div 32
        pre0 == DaysBeforeMonth(leap, m0)
        mon  == IF pre0 > n THEN m0 - 1 ELSE m0
        pre  == DaysBeforeMonth(leap, mon)
    IN  IF n1 = 4 \/ n100 = 4
        THEN <<year - 1, 12, 31>>
        ELSE <<year, mon, n - pre + 1>>

\* date.weekday(): Monday = 0 .. Sunday = 6
Weekday(o) == (o + 6) % 7

\* d.strftime('%Y-%m-%d')
Strftime(o) == Ord2Ymd(o)

\* datetime.strptime(s, '%Y-%m-%d').date()
Strptime(s) == Ymd2Ord(s[1], s[2], s[3])

\* get_baseline_date's `None`: no date has ordinal 0
None == 0

---------------------------------------------------------------------------
(* Date derivation *)

\* get_dosing_dates: 2 = Wednesday, 5 = Saturday
DosingWeekday(group) == IF group = "WEDNESDAY" THEN 2 ELSE 5

\* get_follow_up_date: 3 = Thursday, 6 = Sunday
FollowUpWeekday(group) == IF group = "WEDNESDAY" THEN 3 ELSE 6

\* the Daytime label for either group
BaselineTime_Daytime(group) == "Daytime"

\* the group's baseline label
BaselineTime(group) == IF group = "WEDNESDAY" THEN "Daytime" ELSE "Evening"

\* the dosing date itself
get_pre_scan_date_SameDay(dosing_date) == dosing_date

get_pre_scan_date(dosing_date) == dosing_date - 1

\* while follow_up.weekday() != target_day: follow_up += timedelta(days=1)
RECURSIVE ForwardTo(_, _)
ForwardTo(d, target_day) ==
    IF Weekday(d) # target_day THEN ForwardTo(d + 1, target_day) ELSE d

\* the search for the follow-up weekday started a day early
get_follow_up_date_From13(dosing_date, group) ==
    ForwardTo(dosing_date + 13, FollowUpWeekday(group))

get_follow_up_date(dosing_date, group) ==
    ForwardTo(dosing_date + 14, FollowUpWeekday(group))

\* while current.weekday() != 0: current -= timedelta(days=1)
RECURSIVE BackToMonday(_)
BackToMonday(d) == IF Weekday(d) # 0 THEN BackToMonday(d - 1) ELSE d

\* the floor 25 days before dosing instead of 60
get_baseline_date_Floor25(dosing_date) ==
    LET earliest == dosing_date - 25
        current  == BackToMonday(dosing_date - 22)
    IN  IF current >= earliest THEN current ELSE None

get_baseline_date(dosing_date) ==
    LET earliest == dosing_date - 60
        latest   == dosing_date - 22
        current  == BackToMonday(latest)
    IN  IF current >= earliest THEN current ELSE None

\* the validation asking for a baseline at least 24 days before dosing
_validate_booking_Gap24(baseline, pre_dosing, dosing, follow_up, group) ==
    IF group = "WEDNESDAY" /\ Weekday(dosing) # 2 THEN FALSE
    ELSE IF group = "SATURDAY" /\ Weekday(dosing) # 5 THEN FALSE
    ELSE IF dosing - pre_dosing # 1 THEN FALSE
    ELSE IF dosing - baseline < 24 \/ Weekday(baseline) # 0 THEN FALSE
    ELSE IF group = "WEDNESDAY" /\ Weekday(follow_up) # 3 THEN FALSE
    ELSE IF group = "SATURDAY" /\ Weekday(follow_up) # 6 THEN FALSE
    ELSE TRUE

_validate_booking(baseline, pre_dosing, dosing, follow_up, group) ==
    IF group = "WEDNESDAY" /\ Weekday(dosing) # 2 THEN FALSE
    ELSE IF group = "SATURDAY" /\ Weekday(dosing) # 5 THEN FALSE
    ELSE IF dosing - pre_dosing # 1 THEN FALSE
    ELSE IF dosing - baseline < 22 \/ Weekday(baseline) # 0 THEN FALSE
    ELSE IF group = "WEDNESDAY" /\ Weekday(follow_up) # 3 THEN FALSE
    ELSE IF group = "SATURDAY" /\ Weekday(follow_up) # 6 THEN FALSE
    ELSE TRUE

---------------------------------------------------------------------------
(* Records and the availability queries; bk is a sequence of rows *)

\* every row of bk, whatever its booking_status
ActiveRows_All(bk) == bk

\* the rows of bk whose booking_status is 'Active'
ActiveRows(bk) == SelectSeq(bk, LAMBDA r : r.booking_status = "Active")

\* the set of values of a sequence
Range(q) == {q[i] : i \in 1..Len(q)}

\* [start_date + timedelta(days=i) for i in range(n)]
DateRange(start_date, end_date) ==
    [i \in 1..(end_date - start_date + 1) |-> start_date + (i - 1)]

get_dosing_dates(bk, group) ==
    LET start_date   == Ymd2Ord(2025, 5, 1)
        end_date     == Ymd2Ord(2025, 11, 29)
        target_day   == DosingWeekday(group)
        valid_dates  == SelectSeq(DateRange(start_date, end_date),
                                  LAMBDA d : Weekday(d) = target_day)
        booked_dates == {Strptime(r.dosing_date) : r \in Range(ActiveRows(bk))}
    IN  SelectSeq(valid_dates, LAMBDA d : d \notin booked_dates)

\* the pre-dosing labels without the booking_status filter
get_available_pre_dosing_times_AnyStatus(bk, pre_dosing_date) ==
    IF bk = <<>> THEN <<"Daytime", "Evening">>
    ELSE LET taken == {r.pre_dosing_time : r \in
                         {x \in Range(bk) : x.pre_dosing_date = Strftime(pre_dosing_date)}}
         IN  SelectSeq(<<"Daytime", "Evening">>, LAMBDA t : t \notin taken)

get_available_pre_dosing_times(bk, pre_dosing_date) ==
    IF bk = <<>> THEN <<"Daytime", "Evening">>
    ELSE LET date_str == Strftime(pre_dosing_date)
             taken == {r.pre_dosing_time : r \in
                         {x \in Range(bk) : /\ x.booking_status = "Active"
                                            /\ x.pre_dosing_date = date_str}}
         IN  SelectSeq(<<"Daytime", "Evening">>, LAMBDA t : t \notin taken)

get_available_follow_up_times(bk, follow_up_date) ==
    IF bk = <<>> THEN <<"Daytime", "Evening">>
    ELSE LET date_str == Strftime(follow_up_date)
             taken == {r.follow_up_time : r \in
                         {x \in Range(bk) : /\ x.booking_status = "Active"
                                            /\ x.follow_up_date = date_str}}
         IN  SelectSeq(<<"Daytime", "Evening">>, LAMBDA t : t \notin taken)

\* the baseline check without the baseline_time condition
check_baseline_availability_AnyLabel(bk, baseline_date, group) ==
    ~ \E r \in Range(bk) : /\ r.booking_status = "Active"
                           /\ r.baseline_date = Strftime(baseline_date)

check_baseline_availability(bk, baseline_date, group) ==
    IF bk = <<>> THEN TRUE
    ELSE LET date_str == Strftime(baseline_date)
             time == BaselineTime(group)
         IN  ~ \E r \in Range(bk) : /\ r.booking_status = "Active"
                                    /\ r.baseline_date = date_str
                                    /\ r.baseline_time = time

---------------------------------------------------------------------------
(* book_participant *)

\* booking_data, in the order of self.columns (name, email and booking_time
\* are opaque to every check and are left out)
BookingRow(a) ==
    [participant_id    |-> a.participant_id,
     group             |-> a.group,
     baseline_date     |-> Strftime(a.baseline_date),
     baseline_time     |-> BaselineTime(a.group),
     pre_dosing_date   |-> Strftime(a.pre_dosing_date),
     pre_dosing_time   |-> a.pre_dosing_time,
     dosing_date       |-> Strftime(a.dosing_date),
     dosing_time       |-> "All Day",
     follow_up_date    |-> Strftime(a.follow_up_date),
     follow_up_time    |-> a.follow_up_time,
     booking_status    |-> "Active",
     notes             |-> <<>>,
     cancellation_time |-> ""]

\* the duplicate check looking at the first row only
HasActiveBooking_FirstRow(bk, participant_id) ==
    /\ bk # <<>>
    /\ bk[1].booking_status = "Active"
    /\ bk[1].participant_id = participant_id

\* the duplicate check without the booking_status filter
HasActiveBooking_AnyStatus(bk, participant_id) ==
    \E r \in Range(bk) : r.participant_id = participant_id

\* participant_id in active_bookings['participant_id'].values
HasActiveBooking(bk, participant_id) ==
    \E r \in Range(ActiveRows(bk)) : r.participant_id = participant_id

\* self.bookings.loc[n] = booking_row on a RangeIndex: row n is replaced
\* when it exists and appended when n = len
LocSet(bk, n, row) ==
    IF n < Len(bk) THEN [bk EXCEPT ![n + 1] = row] ELSE Append(bk, row)

\* the update of the local dataframe at the end of book_participant
AddLocal(bk, row) ==
    IF bk = <<>> THEN <<row>> ELSE LocSet(bk, Len(bk), row)

Result(ok, msg, bk, rows) ==
    [ok |-> ok, msg |-> msg, bookings |-> bk, sheetRows |-> rows]

\* the arguments of one book_participant call
Args(participant_id, group, baseline_date, pre_dosing_date, dosing_date, follow_up_date, pre_dosing_time, follow_up_time) ==
    [participant_id  |-> participant_id,
     group           |-> group,
     baseline_date   |-> baseline_date,
     pre_dosing_date |-> pre_dosing_date,
     dosing_date     |-> dosing_date,
     follow_up_date  |-> follow_up_date,
     pre_dosing_time |-> pre_dosing_time,
     follow_up_time  |-> follow_up_time]

\* book_participant with arguments a on bookings bk and sheet rows `rows`;
\* conn: sheet is not None; raises: sheet.append_row raises
book_participant(bk, rows, conn, a, raises) ==
    IF ~_validate_booking(a.baseline_date, a.pre_dosing_date, a.dosing_date,
                          a.follow_up_date, a.group)
    THEN Result(FALSE, <<"Invalid booking dates">>, bk, rows)
    ELSE IF HasActiveBooking(bk, a.participant_id)
    THEN Result(FALSE, <<"Participant ID already has an active booking">>, bk, rows)
    ELSE IF conn /\ raises
    THEN Result(FALSE, <<"Failed to save booking to Google Sheets">>, bk, rows)
    ELSE Result(TRUE, <<"Booking successful">>, AddLocal(bk, BookingRow(a)),
                IF conn THEN Append(rows, BookingRow(a)) ELSE rows)

---------------------------------------------------------------------------
(* cancel_booking, reset_all_bookings, _load_bookings_from_sheet *)

\* the positions of the rows of q that hold participant_id
Matching(q, participant_id) ==
    {i \in 1..Len(q) : q[i].participant_id = participant_id}

\* matching_bookings.index[0]; sheet.find(participant_id).row: the first one
First(S) == CHOOSE i \in S : \A j \in S : i <= j

\* the cancellation that also blanks the time labels of the row
Cancelled_BlanksTimes(row, reason, now) ==
    [row EXCEPT !.booking_status = "Cancelled",
                !.notes = <<"Cancelled: ", reason>>,
                !.cancellation_time = now,
                !.pre_dosing_time = "",
                !.follow_up_time = ""]

\* the three fields cancel_booking writes
Cancelled(row, reason, now) ==
    [row EXCEPT !.booking_status = "Cancelled",
                !.notes = <<"Cancelled: ", reason>>,
                !.cancellation_time = now]

\* cancel_booking that marks the in-memory row before sheet.update is called
cancel_booking_LocalFirst(bk, rows, conn, participant_id, reason, now, fault) ==
    IF ~conn
    THEN Result(FALSE, <<"Cannot cancel booking: No connection to Google Sheets">>, bk, rows)
    ELSE IF Matching(bk, participant_id) = {}
    THEN Result(FALSE, <<"Could not find booking for participant ID: ", participant_id>>, bk, rows)
    ELSE IF fault = "find" \/ Matching(rows, participant_id) = {}
    THEN Result(FALSE, <<"Error finding booking in sheet">>, bk, rows)
    ELSE IF fault = "read"
    THEN Result(FALSE, <<"Error in cancellation process">>, bk, rows)
    ELSE LET row_number == CHOOSE i \in Matching(rows, participant_id) : \A j \in Matching(rows, participant_id) : i <= j
             idx        == CHOOSE i \in Matching(bk, participant_id) : \A j \in Matching(bk, participant_id) : i <= j
             marked     == [bk EXCEPT ![idx] = [@ EXCEPT !.booking_status = "Cancelled",
                                                        !.notes = <<"Cancelled: ", reason>>,
                                                        !.cancellation_time = now]]
         IN  IF fault = "update"
             THEN Result(FALSE, <<"Error updating booking in sheet">>, marked, rows)
             ELSE Result(TRUE, <<"Booking cancelled successfully">>, marked,
                         [rows EXCEPT ![row_number] = [@ EXCEPT !.booking_status = "Cancelled",
                                                               !.notes = <<"Cancelled: ", reason>>,
                                                               !.cancellation_time = now]])

\* fault: the sheet call that raises, if any ("find", "read", "update")
cancel_booking(bk, rows, conn, participant_id, reason, now, fault) ==
    IF ~conn
    THEN Result(FALSE, <<"Cannot cancel booking: No connection to Google Sheets">>, bk, rows)
    ELSE IF Matching(bk, participant_id) = {}
    THEN Result(FALSE, <<"Could not find booking for participant ID: ", participant_id>>, bk, rows)
    ELSE IF fault = "find" \/ Matching(rows, participant_id) = {}
    THEN Result(FALSE, <<"Error finding booking in sheet">>, bk, rows)
    ELSE IF fault = "read"
    THEN Result(FALSE, <<"Error in cancellation process">>, bk, rows)
    ELSE IF fault = "update"
    THEN Result(FALSE, <<"Error updating booking in sheet">>, bk, rows)
    ELSE LET row_number == First(Matching(rows, participant_id))
             idx        == First(Matching(bk, participant_id))
         IN  Result(TRUE, <<"Booking cancelled successfully">>,
                    [bk EXCEPT ![idx] = Cancelled(bk[idx], reason, now)],
                    [rows EXCEPT ![row_number] =
                                   Cancelled(rows[row_number], reason, now)])

\* the sheet calls of reset_all_bookings that may raise: sheet.clear(), or
\* sheet.append_row(self.columns) after the worksheet was cleared
ResetFaults == {"none", "clear", "header"}

\* reset_all_bookings that leaves the in-memory frame as it is
reset_all_bookings_KeepLocal(bk, rows, conn, fault) ==
    IF ~conn
    THEN Result(FALSE, <<"Cannot reset bookings: No connection to Google Sheets">>, bk, rows)
    ELSE IF fault = "clear"
    THEN Result(FALSE, <<"Error resetting bookings">>, bk, rows)
    ELSE IF fault = "header"
    THEN Result(FALSE, <<"Error resetting bookings">>, bk, <<>>)
    ELSE Result(TRUE, <<"All bookings have been reset successfully">>, bk, <<>>)

\* fault: the sheet call that raises, if any.  When append_row raises the
\* worksheet is already cleared and self.bookings is not yet reset.
reset_all_bookings(bk, rows, conn, fault) ==
    IF ~conn
    THEN Result(FALSE, <<"Cannot reset bookings: No connection to Google Sheets">>, bk, rows)
    ELSE IF fault = "clear"
    THEN Result(FALSE, <<"Error resetting bookings">>, bk, rows)
    ELSE IF fault = "header"
    THEN Result(FALSE, <<"Error resetting bookings">>, bk, <<>>)
    ELSE Result(TRUE, <<"All bookings have been reset successfully">>, <<>>, <<>>)

\* whether row 1 holds the column names after reset_all_bookings: sheet.clear()
\* removes them, sheet.append_row(self.columns) writes them again
reset_header(hd, conn, fault) ==
    IF ~conn \/ fault = "clear" THEN hd
    ELSE IF fault = "header" THEN FALSE
    ELSE TRUE

\* _load_bookings_from_sheet: the bookings afterwards; fault:
\* sheet.get_all_values() raises.  With only the header row in the sheet the
\* method returns before it assigns self.bookings.
load_bookings_from_sheet(bk, rows, conn, fault) ==
    IF ~conn THEN bk
    ELSE IF fault THEN bk
    ELSE IF rows = <<>> THEN bk
    ELSE rows

---------------------------------------------------------------------------
(* The calls, one action per call of a method of the shared
   StudyBookingSystem.  A sheet call that raises has written nothing. *)

\* the wall-clock text datetime.now().strftime(...) of a call
Stamps == {"T1"}

\* the dosing dates callers pass: a Wednesday and the Saturday after it
ArgDosing == {Ymd2Ord(2025, 5, 7), Ymd2Ord(2025, 5, 10)}

\* the other three dates a caller passes with dosing date d, as the days
\* <<dosing - pre_dosing, dosing - baseline, follow_up - dosing>>: the derived
\* schedule, and the schedules that differ from it in one date
ArgOffsets(d) ==
    LET b == IF Weekday(d) = 2 THEN 23 ELSE 26
    IN  {<<1, b, 15>>, <<1, b, 1>>, <<2, b, 15>>, <<1, b - 7, 15>>, <<1, b - 1, 15>>, <<1, b, 14>>}

\* the <<pre_dosing_time, follow_up_time>> a direct caller passes (the form
\* sessions below choose among all the labels the queries offer)
ArgTimes == {<<"Daytime", "Evening">>}

Idle == [pc |-> "idle"]

\* the (success, message) pair a call returns
Returned(res) == [ok |-> res.ok, msg |-> res.msg]

\* the arguments direct callers pass to book_participant
CallArgs ==
    UNION {{Args(pid, group, d - o[2], d - o[1], d, d + o[3], tm[1], tm[2]) :
               pid \in PIDs, group \in Groups, tm \in ArgTimes, o \in ArgOffsets(d)} :
           d \in ArgDosing}

\* the sheet calls of cancel_booking that may raise
CancelFaults == {"none", "find", "read", "update"}

\* the worksheet, if any, has its header row: book_participant,
\* cancel_booking and _load_bookings_from_sheet are followed on such a
\* worksheet only (reset_all_bookings writes the header row again)
HeaderInPlace == sheet => header

\* one call of book_participant, run to its return
BookStep(a, raises) ==
    LET res == book_participant(bookings, sheetRows, sheet, a, raises)
    IN  /\ bookings' = res.bookings
        /\ sheetRows' = res.sheetRows
        /\ ret' = Returned(res)

\* a call of book_participant by any caller; raising: whether
\* sheet.append_row may raise.  A call that would take bookings past
\* MaxBookings rows is not made.
BookCall(raising) ==
    /\ HeaderInPlace
    /\ \E a \in CallArgs, raises \in raising :
          /\ Len(book_participant(bookings, sheetRows, sheet, a, raises).bookings) <= MaxBookings
          /\ BookStep(a, raises)
    /\ UNCHANGED <<sheet, form, thr, header, other>>

\* one call of cancel_booking, run to its return
CancelStep(pid, reason, now, fault) ==
    LET res == cancel_booking(bookings, sheetRows, sheet, pid, reason, now, fault)
    IN  /\ bookings' = res.bookings
        /\ sheetRows' = res.sheetRows
        /\ ret' = Returned(res)

\* a call of cancel_booking; faults: the sheet calls that may raise
CancelCall(faults) ==
    /\ HeaderInPlace
    /\ \E pid \in PIDs, reason \in Reasons, now \in Stamps, fault \in faults :
          CancelStep(pid, reason, now, fault)
    /\ UNCHANGED <<sheet, form, thr, header, other>>

\* the admin panel's "Cancel Selected Booking": the participant is one with an
\* Active booking, and a successful cancel_booking is followed by
\* _load_bookings_from_sheet
AdminCancelCall(faults, lfaults) ==
    /\ HeaderInPlace
    /\ \E pid \in PIDs, reason \in Reasons, now \in Stamps, fault \in faults, lfault \in lfaults :
          LET res == cancel_booking(bookings, sheetRows, sheet, pid, reason, now, fault)
          IN  /\ HasActiveBooking(bookings, pid)
              /\ bookings' = IF res.ok
                             THEN load_bookings_from_sheet(res.bookings, res.sheetRows, sheet, lfault)
                             ELSE res.bookings
              /\ sheetRows' = res.sheetRows
              /\ ret' = Returned(res)
    /\ UNCHANGED <<sheet, form, thr, header, other>>

\* the admin panel's "Reset All Bookings"
ResetCall(faults) ==
    /\ \E fault \in faults :
          LET res == reset_all_bookings(bookings, sheetRows, sheet, fault)
          IN  /\ bookings' = res.bookings
              /\ sheetRows' = res.sheetRows
              /\ ret' = Returned(res)
              /\ header' = reset_header(header, sheet, fault)
    /\ UNCHANGED <<sheet, form, thr, other>>

\* the admin panel's "Refresh Bookings": _load_bookings_from_sheet returns
\* nothing
RefreshCall(faults) ==
    /\ HeaderInPlace
    /\ \E fault \in faults :
          bookings' = load_bookings_from_sheet(bookings, sheetRows, sheet, fault)
    /\ UNCHANGED <<sheet, sheetRows, ret, form, thr, header, other>>

\* the calls with every sheet call succeeding
BookParticipant == BookCall({FALSE})
CancelBooking == CancelCall({"none"})
AdminCancel == AdminCancelCall({"none"}, {FALSE})
ResetAllBookings == ResetCall({"none"})
RefreshBookings == RefreshCall({FALSE})

---------------------------------------------------------------------------
(* The booking form (tab "Book Appointment").  Each browser session runs the
   script in a thread of its own against the one cached StudyBookingSystem:
   FormRun is the script up to the "Book Appointments" button, FormBook the
   body of the button's branch. *)

\* the participant who fills in the form of a session
SessionPid(s) == IF s = "s1" THEN "P001" ELSE "P002"

\* the first n entries of q
Prefix(q, n) == SubSeq(q, 1, IF Len(q) < n THEN Len(q) ELSE n)

\* st.radio over the labels offered, or None when none is offered
RadioChoices(options) == IF options = <<>> THEN {"None"} ELSE Range(options)

\* steps 1 to 5 of the form: the dates are derived from the dosing date the
\* participant selects, the labels are chosen among those the queries offer
FormRun(s) ==
    /\ \E group \in Groups :
       \E dosing_date \in Range(Prefix(get_dosing_dates(bookings, group), MaxPick)) :
          LET pre_dosing_date    == get_pre_scan_date(dosing_date)
              follow_up_date     == get_follow_up_date(dosing_date, group)
              baseline_date      == get_baseline_date(dosing_date)
              baseline_available == check_baseline_availability(bookings, baseline_date, group)
          IN  \E pre_dosing_time \in RadioChoices(get_available_pre_dosing_times(bookings, pre_dosing_date)),
                 follow_up_time \in RadioChoices(get_available_follow_up_times(bookings, follow_up_date)) :
                 form' = [form EXCEPT ![s] =
                            [pc       |-> "shown",
                             args     |-> Args(SessionPid(s), group, baseline_date, pre_dosing_date, dosing_date, follow_up_date, pre_dosing_time, follow_up_time),
                             can_book |-> /\ baseline_available
                                          /\ pre_dosing_time # "None"
                                          /\ follow_up_time # "None"]]
    /\ UNCHANGED <<sheet, sheetRows, bookings, ret, thr, header, other>>

\* the button's branch: book_participant with what the script run computed
FormBook(s) ==
    /\ form[s].pc = "shown"
    /\ form[s].can_book
    /\ Len(bookings) < MaxBookings
    /\ BookStep(form[s].args, FALSE)
    /\ form' = [form EXCEPT ![s] = Idle]
    /\ UNCHANGED <<sheet, thr, header, other>>

---------------------------------------------------------------------------
(* book_participant run by two threads on the one cached StudyBookingSystem.
   The call is cut where another thread can run: after the checks, after
   sheet.append_row, after len(self.bookings) is read. *)

\* the call has returned (success, message)
Done(a, ok, msg) == [pc |-> "done", args |-> a, ok |-> ok, msg |-> msg]

\* _validate_booking and the check for an Active booking of the participant
ConcCheck(t) ==
    /\ thr[t].pc = "idle"
    /\ \E a \in CallArgs :
          LET res == book_participant(bookings, sheetRows, FALSE, a, FALSE)
          IN  IF res.ok
              THEN /\ thr' = [thr EXCEPT ![t] = [pc |-> "checked", args |-> a]]
                   /\ UNCHANGED ret
              ELSE /\ thr' = [thr EXCEPT ![t] = Done(a, FALSE, res.msg)]
                   /\ ret' = Returned(res)
    /\ UNCHANGED <<sheet, sheetRows, bookings, form, header, other>>

\* sheet.append_row(booking_row) when a worksheet is connected
ConcAppend(t) ==
    /\ thr[t].pc = "checked"
    /\ sheetRows' = IF sheet THEN Append(sheetRows, BookingRow(thr[t].args)) ELSE sheetRows
    /\ thr' = [thr EXCEPT ![t] = [pc |-> "appended", args |-> thr[t].args]]
    /\ UNCHANGED <<sheet, bookings, ret, form, header, other>>

\* self.bookings.empty and len(self.bookings) are read
ConcLen(t) ==
    /\ thr[t].pc = "appended"
    /\ thr' = [thr EXCEPT ![t] = [pc |-> "sized", args |-> thr[t].args, n |-> Len(bookings)]]
    /\ UNCHANGED <<sheet, sheetRows, bookings, ret, form, header, other>>

\* the local frame is replaced (it was empty) or row n of it is assigned,
\* and the call returns success
ConcWrite(t) ==
    /\ thr[t].pc = "sized"
    /\ bookings' = IF thr[t].n = 0
                   THEN <<BookingRow(thr[t].args)>>
                   ELSE LocSet(bookings, thr[t].n, BookingRow(thr[t].args))
    /\ thr' = [thr EXCEPT ![t] = Done(thr[t].args, TRUE, <<"Booking successful">>)]
    /\ ret' = [ok |-> TRUE, msg |-> <<"Booking successful">>]
    /\ UNCHANGED <<sheet, sheetRows, form, header, other>>

---------------------------------------------------------------------------
(* The date derivation functions called on any date *)

\* the anchor dates callers pass, of every weekday
AnchorDates == Ymd2Ord(2025, 5, 1)..(Ymd2Ord(2025, 5, 1) + MaxAnchor)

\* a session's calls of get_pre_scan_date, get_follow_up_date and
\* get_baseline_date for one dosing date and group, with what they return
DeriveCall(s) ==
    /\ \E dosing_date \in AnchorDates, group \in Groups :
          form' = [form EXCEPT ![s] =
                     [pc              |-> "derived",
                      group           |-> group,
                      dosing_date     |-> dosing_date,
                      pre_dosing_date |-> get_pre_scan_date(dosing_date),
                      follow_up_date  |-> get_follow_up_date(dosing_date, group),
                      baseline_date   |-> get_baseline_date(dosing_date)]]
    /\ UNCHANGED <<sheet, sheetRows, bookings, ret, thr, header, other>>

---------------------------------------------------------------------------
(* The availability queries on a worksheet that holds bookings *)

\* the arguments of the bookings a worksheet holds: the derived schedule of
\* the group's dosing date, with either assignment of the two labels
StoredArgs ==
    UNION {{Args(pid, group, get_baseline_date(d), get_pre_scan_date(d), d, get_follow_up_date(d, group), tm[1], tm[2]) :
               pid \in PIDs,
               d \in {x \in ArgDosing : Weekday(x) = DosingWeekday(group)},
               tm \in {<<"Daytime", "Evening">>, <<"Evening", "Daytime">>}} :
           group \in Groups}

\* the rows book_participant wrote for them, as written or as cancel_booking
\* left them
StoredRows ==
    {BookingRow(a) : a \in StoredArgs} \cup
    {Cancelled(BookingRow(a), "r1", "T1") : a \in StoredArgs}

\* the rows of a participant are what the calls can leave: one Active row, or
\* one Cancelled row, or a Cancelled row and a later Active one
LeftByCalls(q) ==
    \A pid \in PIDs :
        LET m == Matching(q, pid)
        IN  \/ m = {}
            \/ /\ Cardinality(m) <= 2
               /\ \A i \in m : (q[i].booking_status = "Cancelled") <=> (i = First(m) /\ Cardinality(m) = 2)
            \/ /\ Cardinality(m) = 1
               /\ q[First(m)].booking_status = "Cancelled"

\* the bookings a worksheet can hold
StoredBookings ==
    {q \in UNION {[1..n -> StoredRows] : n \in 0..MaxStored} : LeftByCalls(q)}

\* after StudyBookingSystem() on a worksheet that holds bookings
InitQuery ==
    /\ sheet = TRUE
    /\ sheetRows \in StoredBookings
    /\ bookings = load_bookings_from_sheet(<<>>, sheetRows, sheet, FALSE)
    /\ ret = [ok |-> TRUE, msg |-> <<>>]
    /\ form = [s \in Sessions |-> Idle]
    /\ thr = [t \in Threads |-> Idle]
    /\ header = sheet
    /\ other = <<>>

\* a query filters self.bookings into a new frame and assigns nothing to it
AfterQuery_Filtered(bk) == ActiveRows(bk)

AfterQuery(bk) == bk

\* what the four availability queries return on bookings bk for a group and
\* the schedule of a dosing date
QueryResult(bk, group, dosing_date) ==
    [pc                 |-> "queried",
     group              |-> group,
     dosing_date        |-> dosing_date,
     pre_dosing_date    |-> get_pre_scan_date(dosing_date),
     follow_up_date     |-> get_follow_up_date(dosing_date, group),
     baseline_date      |-> get_baseline_date(dosing_date),
     dosing_dates       |-> get_dosing_dates(bk, group),
     pre_times          |-> get_available_pre_dosing_times(bk, get_pre_scan_date(dosing_date)),
     follow_times       |-> get_available_follow_up_times(bk, get_follow_up_date(dosing_date, group)),
     baseline_available |-> check_baseline_availability(bk, get_baseline_date(dosing_date), group)]

\* a session's calls of the four availability queries
QueryCall(s) ==
    /\ \E group \in Groups, dosing_date \in ArgDosing :
          form' = [form EXCEPT ![s] = QueryResult(bookings, group, dosing_date)]
    /\ bookings' = AfterQuery(bookings)
    /\ UNCHANGED <<sheet, sheetRows, ret, thr, header, other>>

---------------------------------------------------------------------------
(* A second StudyBookingSystem on the same worksheet: get_booking_system is
   cached per server process, and each process constructs its own. *)

\* book_participant called on the second instance
OtherBook ==
    /\ sheet
    /\ Len(sheetRows) < MaxBookings
    /\ \E a \in CallArgs :
          LET res == book_participant(other, sheetRows, sheet, a, FALSE)
          IN  /\ other' = res.bookings
              /\ sheetRows' = res.sheetRows
              /\ ret' = Returned(res)
    /\ UNCHANGED <<sheet, bookings, form, thr, header>>

\* book_participant called on the first instance
FirstBook ==
    /\ sheet
    /\ Len(sheetRows) < MaxBookings
    /\ BookParticipant

\* "Refresh Bookings" in a session of the second instance
OtherRefresh ==
    /\ sheet
    /\ other' = load_bookings_from_sheet(other, sheetRows, sheet, FALSE)
    /\ UNCHANGED <<sheet, sheetRows, bookings, ret, form, thr, header>>

\* after StudyBookingSystem() on an empty worksheet, or with no worksheet
Init ==
    /\ sheet \in BOOLEAN
    /\ sheetRows = <<>>
    /\ bookings = <<>>
    /\ ret = [ok |-> TRUE, msg |-> <<>>]
    /\ form = [s \in Sessions |-> Idle]
    /\ thr = [t \in Threads |-> Idle]
    /\ header = sheet
    /\ other = <<>>

Next ==
    \/ BookParticipant
    \/ CancelBooking
    \/ AdminCancel
    \/ ResetAllBookings
    \/ RefreshBookings

Spec == Init /\ [][Next]_vars

NextForm ==
    \/ \E s \in Sessions : FormRun(s)
    \/ \E s \in Sessions : FormBook(s)

\* the sessions of the booking form, each run in a thread of its own
SpecForm == Init /\ [][NextForm]_vars

NextConc ==
    \/ \E t \in Threads : ConcCheck(t)
    \/ \E t \in Threads : ConcAppend(t)
    \/ \E t \in Threads : ConcLen(t)
    \/ \E t \in Threads : ConcWrite(t)

\* two threads, each in one call of book_participant
SpecConc == Init /\ [][NextConc]_vars

\* the calls with any sheet call raising
BookMayFail == BookCall(BOOLEAN)
CancelMayFail == CancelCall(CancelFaults)
AdminCancelMayFail == AdminCancelCall(CancelFaults, BOOLEAN)
ResetMayFail == ResetCall(ResetFaults)
RefreshMayFail == RefreshCall(BOOLEAN)

NextFaults ==
    \/ BookMayFail
    \/ CancelMayFail
    \/ AdminCancelMayFail
    \/ ResetMayFail
    \/ RefreshMayFail

\* the calls of Spec against a worksheet whose calls may raise
SpecFaults == Init /\ [][NextFaults]_vars

NextDerive == \E s \in Sessions : DeriveCall(s)

\* the date derivation functions applied to the anchor dates
SpecDerive == Init /\ [][NextDerive]_vars

NextQuery == \E s \in Sessions : QueryCall(s)

\* the availability queries on the bookings a worksheet can hold
SpecQuery == InitQuery /\ [][NextQuery]_vars

NextTwo ==
    \/ FirstBook
    \/ OtherBook
    \/ OtherRefresh

\* two instances constructed on the same empty worksheet
SpecTwo == Init /\ [][NextTwo]_vars

---------------------------------------------------------------------------
(* Properties of the calls (specification Spec) *)

\* rows i and j of bk are two different Active bookings
TwoActive(bk, i, j) ==
    /\ i # j
    /\ bk[i].booking_status = "Active"
    /\ bk[j].booking_status = "Active"

\* C1: at most one Active booking holds any (baseline_date, baseline_time)
C1_BaselineSlotExclusive ==
    \A i, j \in 1..Len(bookings) :
        TwoActive(bookings, i, j) =>
            <<bookings[i].baseline_date, bookings[i].baseline_time>> #
            <<bookings[j].baseline_date, bookings[j].baseline_time>>

\* every participant_id has at most one Active booking
OneActivePerParticipant ==
    \A i, j \in 1..Len(bookings) :
        TwoActive(bookings, i, j) =>
            bookings[i].participant_id # bookings[j].participant_id

\* the arguments of CallArgs whose dates _validate_booking accepts
ValidCallArgs ==
    {a \in CallArgs : _validate_booking(a.baseline_date, a.pre_dosing_date, a.dosing_date, a.follow_up_date, a.group)}

\* a participant without an Active booking (with Cancelled ones or none) is
\* not refused: book_participant with accepted dates, the store taking the
\* row, returns success
CancelledDoNotBlock ==
    \A a \in ValidCallArgs :
        (\A i \in Matching(bookings, a.participant_id) : bookings[i].booking_status = "Cancelled")
        => book_participant(bookings, sheetRows, sheet, a, FALSE).ok

\* C3: each participant_id has at most one Active booking in every reachable
\* state, and Cancelled bookings of the same id do not block a new booking
C3_OneActivePerParticipant ==
    OneActivePerParticipant /\ CancelledDoNotBlock

\* C3's case: a participant's Cancelled booking followed by a new Active one,
\* the booking call having just returned success
C3_Witness ==
    /\ ret.msg = <<"Booking successful">>
    /\ \E i, j \in 1..Len(bookings) :
          /\ i < j
          /\ bookings[i].participant_id = bookings[j].participant_id
          /\ bookings[i].booking_status = "Cancelled"
          /\ bookings[j].booking_status = "Active"

\* C5: at most one Active booking holds any dosing_date
C5_DosingDateExclusive ==
    \A i, j \in 1..Len(bookings) :
        TwoActive(bookings, i, j) => bookings[i].dosing_date # bookings[j].dosing_date

\* C6: at most one Active booking holds any (pre_dosing_date, pre_dosing_time)
\* and at most one any (follow_up_date, follow_up_time)
C6_PreAndFollowUpSlotExclusive ==
    \A i, j \in 1..Len(bookings) :
        TwoActive(bookings, i, j) =>
            /\ <<bookings[i].pre_dosing_date, bookings[i].pre_dosing_time>> #
               <<bookings[j].pre_dosing_date, bookings[j].pre_dosing_time>>
            /\ <<bookings[i].follow_up_date, bookings[i].follow_up_time>> #
               <<bookings[j].follow_up_date, bookings[j].follow_up_time>>

\* positions present before and after a step
Kept == 1..(IF Len(bookings) <= Len(bookings') THEN Len(bookings) ELSE Len(bookings'))

\* C7: a booking's status changes only from Active to Cancelled, and once a
\* booking is Cancelled no call changes its booking_status, notes or
\* cancellation_time
C7_CancelledIsFinal ==
    [][\A i \in Kept :
          /\ bookings[i].booking_status # bookings'[i].booking_status =>
                /\ bookings[i].booking_status = "Active"
                /\ bookings'[i].booking_status = "Cancelled"
          /\ bookings[i].booking_status = "Cancelled" =>
                /\ bookings'[i].booking_status = "Cancelled"
                /\ bookings'[i].notes = bookings[i].notes
                /\ bookings'[i].cancellation_time = bookings[i].cancellation_time]_vars

\* the participant has bookings and every one of them is Cancelled
OnlyCancelled(bk, participant_id) ==
    /\ Matching(bk, participant_id) # {}
    /\ \A i \in Matching(bk, participant_id) : bk[i].booking_status = "Cancelled"

\* C8: cancel_booking for a participant whose only bookings are already
\* Cancelled returns failure and changes no record
C8_CancelOfCancelledFails ==
    [][\A pid \in PIDs, reason \in Reasons, now \in Stamps :
          (OnlyCancelled(bookings, pid) /\ CancelStep(pid, reason, now, "none"))
          => (~ret'.ok /\ bookings' = bookings /\ sheetRows' = sheetRows)]_vars

\* the four availability answers for the slots of row r, on bookings bk
SlotAnswers(bk, r) ==
    <<Strptime(r.dosing_date) \in Range(get_dosing_dates(bk, r.group)),
      check_baseline_availability(bk, Strptime(r.baseline_date), r.group),
      r.pre_dosing_time \in Range(get_available_pre_dosing_times(bk, Strptime(r.pre_dosing_date))),
      r.follow_up_time \in Range(get_available_follow_up_times(bk, Strptime(r.follow_up_date)))>>

\* bk without its last row
Front(bk) == SubSeq(bk, 1, Len(bk) - 1)

\* C9: round trip: a successful book_participant followed by a successful
\* cancel_booking of that participant leaves every slot of the booking as
\* available as it was before the booking
C9_BookCancelRoundTrip ==
    [][\A pid \in PIDs, reason \in Reasons, now \in Stamps :
          (/\ ret.msg = <<"Booking successful">>
           /\ bookings # <<>>
           /\ bookings[Len(bookings)].participant_id = pid
           /\ CancelStep(pid, reason, now, "none")
           /\ ret'.ok)
          => SlotAnswers(bookings', bookings[Len(bookings)]) =
             SlotAnswers(Front(bookings), bookings[Len(bookings)])]_vars

\* the dates of row r obey the derivation rules relative to its dosing date
DatesDerived(r) ==
    LET dosing == Strptime(r.dosing_date)
    IN  /\ Weekday(dosing) = DosingWeekday(r.group)
        /\ Strptime(r.pre_dosing_date) = dosing - 1
        /\ Strptime(r.baseline_date) = get_baseline_date(dosing)
        /\ Weekday(Strptime(r.baseline_date)) = 0
        /\ Strptime(r.follow_up_date) = get_follow_up_date(dosing, r.group)
        /\ Strptime(r.follow_up_date) \in (dosing + 14)..(dosing + 20)

\* C10: every booking book_participant stored has dates that satisfy the
\* derivation rules relative to its dosing date
C10_StoredDatesDerived ==
    \A i \in 1..Len(bookings) : DatesDerived(bookings[i])

---------------------------------------------------------------------------
(* Properties of concurrent calls (specification SpecConc) *)

\* the Active rows of bk that hold the baseline slot args a proposes
BaselineHolders(bk, a) ==
    {i \in 1..Len(bk) : /\ bk[i].booking_status = "Active"
                        /\ bk[i].baseline_date = Strftime(a.baseline_date)
                        /\ bk[i].baseline_time = BaselineTime(a.group)}

\* both threads have returned from calls for different participants, with
\* valid dates, that propose the same baseline (date, label)
BothReturnedSameBaseline ==
    /\ \A t \in Threads : thr[t].pc = "done" /\ thr[t].args \in ValidCallArgs
    /\ thr["t1"].args.participant_id # thr["t2"].args.participant_id
    /\ thr["t1"].args.baseline_date = thr["t2"].args.baseline_date
    /\ thr["t1"].args.group = thr["t2"].args.group

\* C2: of two interleaved book_participant calls for different participants
\* that propose the same baseline (date, label), exactly one returns success
\* and the store ends with exactly one Active record for that slot
C2_ConcurrentBaselineExclusive ==
    BothReturnedSameBaseline =>
        /\ Cardinality({t \in Threads : thr[t].ok}) = 1
        /\ Cardinality(BaselineHolders(bookings, thr["t1"].args)) = 1
        /\ sheet => Cardinality(BaselineHolders(sheetRows, thr["t1"].args)) = 1

\* the Active rows of bk that belong to participant pid
ActiveOf(bk, pid) ==
    {i \in 1..Len(bk) : bk[i].participant_id = pid /\ bk[i].booking_status = "Active"}

\* both threads have returned from calls with the same participant_id
BothReturnedSameParticipant ==
    /\ \A t \in Threads : thr[t].pc = "done"
    /\ thr["t1"].args.participant_id = thr["t2"].args.participant_id

---------------------------------------------------------------------------
(* Properties of the booking form (specification SpecForm) *)

\* an Active row of bk holds one of the slots args a proposes
SlotOccupied(bk, a) ==
    \E i \in 1..Len(bk) :
        /\ bk[i].booking_status = "Active"
        /\ \/ /\ bk[i].baseline_date = Strftime(a.baseline_date)
              /\ bk[i].baseline_time = BaselineTime(a.group)
           \/ /\ bk[i].pre_dosing_date = Strftime(a.pre_dosing_date)
              /\ bk[i].pre_dosing_time = a.pre_dosing_time
           \/ bk[i].dosing_date = Strftime(a.dosing_date)
           \/ /\ bk[i].follow_up_date = Strftime(a.follow_up_date)
              /\ bk[i].follow_up_time = a.follow_up_time

\* C4: when a slot the form proposed has become occupied by an Active booking
\* since the form was shown, the button's call of book_participant returns a
\* failure and appends nothing
C4_RecheckBeforePersist ==
    [][\A s \in Sessions :
          (FormBook(s) /\ SlotOccupied(bookings, form[s].args)) =>
              /\ ~ret'.ok
              /\ bookings' = bookings
              /\ sheetRows' = sheetRows]_vars

---------------------------------------------------------------------------
(* Properties of the failures of book_participant (specification Spec) *)

\* date d falls on the weekday of date ref
SameWeekday(d, ref) == (d - ref) % 7 = 0

\* the dates of args a obey the weekday and spacing rules: dosing on the
\* group's weekday, pre-dosing the day before, baseline a Monday 22 to 28
\* days before, follow-up on the group's follow-up weekday 14 to 20 days after
RulesHold(a) ==
    /\ SameWeekday(a.dosing_date, IF a.group = "WEDNESDAY" THEN Ymd2Ord(2025, 5, 7) ELSE Ymd2Ord(2025, 5, 10))
    /\ a.pre_dosing_date = a.dosing_date - 1
    /\ SameWeekday(a.baseline_date, Ymd2Ord(2025, 5, 5))
    /\ a.dosing_date - a.baseline_date \in 22..28
    /\ SameWeekday(a.follow_up_date, IF a.group = "WEDNESDAY" THEN Ymd2Ord(2025, 5, 8) ELSE Ymd2Ord(2025, 5, 11))
    /\ a.follow_up_date - a.dosing_date \in 14..20

\* C11: a book_participant call whose dates violate the weekday/spacing rules
\* returns a failure, appends nothing to the store and leaves the in-memory
\* bookings unchanged
C11_InvalidDatesRejected ==
    [][\A a \in CallArgs :
          (~RulesHold(a) /\ BookStep(a, FALSE)) =>
              /\ ~ret'.ok
              /\ bookings' = bookings
              /\ sheetRows' = sheetRows]_vars

\* what book_participant would return and leave for args a in this state
Attempt(a) == book_participant(bookings, sheetRows, sheet, a, FALSE)

\* the participant of args a has an Active booking
IsBooked(a) ==
    \E i \in 1..Len(bookings) :
        /\ bookings[i].participant_id = a.participant_id
        /\ bookings[i].booking_status = "Active"

\* the call for args a is refused and leaves the bookings and the store alone
Refused(a) ==
    /\ ~Attempt(a).ok
    /\ Attempt(a).bookings = bookings
    /\ Attempt(a).sheetRows = sheetRows

\* C12 as stated: a second call for a participant with an Active booking is
\* rejected with the duplicate-participant conflict whatever dates are proposed
C12_DuplicateConflictWhateverDates ==
    \A a \in CallArgs :
        IsBooked(a) =>
            /\ Refused(a)
            /\ Attempt(a).msg = <<"Participant ID already has an active booking">>

\* C12: a second call for a participant with an Active booking is refused and
\* changes nothing; the failure is the duplicate-participant conflict when the
\* dates pass _validate_booking and the validation failure when they do not
C12_DuplicateRejected ==
    \A a \in CallArgs :
        IsBooked(a) =>
            /\ Refused(a)
            /\ Attempt(a).msg =
                  IF a \in ValidCallArgs
                  THEN <<"Participant ID already has an active booking">>
                  ELSE <<"Invalid booking dates">>

\* C12's case: a call has just been refused as a duplicate while its
\* participant holds an Active booking next to another participant's
C12_Witness ==
    /\ ret = [ok |-> FALSE, msg |-> <<"Participant ID already has an active booking">>]
    /\ \E i, j \in 1..Len(bookings) :
          /\ TwoActive(bookings, i, j)
          /\ bookings[i].participant_id # bookings[j].participant_id

---------------------------------------------------------------------------
(* Properties of get_dosing_dates (specification Spec) *)

\* the dates of the horizon [2025-05-01, 2025-11-29]
Horizon == Ymd2Ord(2025, 5, 1)..Ymd2Ord(2025, 11, 29)

\* an Active booking has date d as its dosing_date
DosingHeld(d) ==
    \E i \in 1..Len(bookings) :
        /\ bookings[i].booking_status = "Active"
        /\ bookings[i].dosing_date = Strftime(d)

\* the dates of the horizon on the group's dosing weekday that no Active
\* booking has as its dosing_date
FreeDosingDates(group) ==
    {d \in Horizon :
       /\ SameWeekday(d, IF group = "WEDNESDAY" THEN Ymd2Ord(2025, 5, 7) ELSE Ymd2Ord(2025, 5, 10))
       /\ ~DosingHeld(d)}

\* q is in strictly increasing order
StrictlyIncreasing(q) == \A i, j \in 1..Len(q) : i < j => q[i] < q[j]

\* C14: get_dosing_dates(group) returns in strictly increasing order exactly
\* the dates of the horizon on the group's dosing weekday that are not the
\* dosing_date of an Active booking; dates of Cancelled bookings are included
C14_DosingDatesExact ==
    \A group \in Groups :
        /\ StrictlyIncreasing(get_dosing_dates(bookings, group))
        /\ Range(get_dosing_dates(bookings, group)) = FreeDosingDates(group)

\* C14's case: one dosing date is held by an Active booking and left out,
\* another is held only by a Cancelled booking and returned
C14_Witness ==
    \E i, j \in 1..Len(bookings) :
        /\ bookings[i].booking_status = "Active"
        /\ Strptime(bookings[i].dosing_date) \notin Range(get_dosing_dates(bookings, bookings[i].group))
        /\ bookings[j].booking_status = "Cancelled"
        /\ Strptime(bookings[j].dosing_date) \in Range(get_dosing_dates(bookings, bookings[j].group))

---------------------------------------------------------------------------
(* Properties of the calls when the store fails (specification SpecFaults) *)

\* C13: when there is no sheet connection or sheet.append_row raises, a call
\* of book_participant that passed its checks returns the store failure and
\* records no booking in the in-memory bookings
C13_StoreUnavailableFails ==
    [][\A a \in ValidCallArgs, raises \in BOOLEAN :
          (/\ ~IsBooked(a)
           /\ ~sheet \/ raises
           /\ BookStep(a, raises))
          => /\ ret' = [ok |-> FALSE, msg |-> <<"Failed to save booking to Google Sheets">>]
             /\ bookings' = bookings]_vars

---------------------------------------------------------------------------
(* Properties of the date derivation (specification SpecDerive) *)

\* the sessions holding a derived schedule
Derived == {s \in Sessions : form[s].pc = "derived"}

\* a date on the follow-up weekday of the group: a Thursday or a Sunday
FollowUpRef(group) == IF group = "WEDNESDAY" THEN Ymd2Ord(2025, 5, 8) ELSE Ymd2Ord(2025, 5, 11)

\* C15: get_follow_up_date(a, group) returns the first date on or after
\* a + 14 on the group's follow-up weekday, which lies within [a+14, a+20]
C15_FollowUpFirstWeekday ==
    \A s \in Derived :
        LET a == form[s].dosing_date
            f == form[s].follow_up_date
        IN  /\ f \in (a + 14)..(a + 20)
            /\ SameWeekday(f, FollowUpRef(form[s].group))
            /\ \A d \in (a + 14)..(f - 1) : ~SameWeekday(d, FollowUpRef(form[s].group))

\* C15's case: the loop took its six steps, the follow-up is a + 20
C15_Witness ==
    \E s \in Derived : form[s].follow_up_date = form[s].dosing_date + 20

\* C16: get_baseline_date(a) returns the latest Monday on or before a - 22,
\* 22 to 28 days before a, and never None
C16_BaselineLatestMonday ==
    \A s \in Derived :
        LET a == form[s].dosing_date
            b == form[s].baseline_date
        IN  /\ b # None
            /\ a - b \in 22..28
            /\ SameWeekday(b, Ymd2Ord(2025, 5, 5))
            /\ \A d \in (b + 1)..(a - 22) : ~SameWeekday(d, Ymd2Ord(2025, 5, 5))

\* C16's case: the loop took its six backward steps, the baseline is a - 28
C16_Witness ==
    \E s \in Derived : form[s].baseline_date = form[s].dosing_date - 28

\* the schedule session s derived is the dosing date less pre, less base, and
\* plus follow days
Schedule(s, pre, base, follow) ==
    /\ form[s].pre_dosing_date = form[s].dosing_date - pre
    /\ form[s].baseline_date = form[s].dosing_date - base
    /\ form[s].follow_up_date = form[s].dosing_date + follow

\* C17: a Wednesday anchor a gives pre-dosing a-1, baseline a-23 and
\* follow-up a+15; a Saturday anchor a gives a-1, a-26 and a+15
C17_DerivedSchedule ==
    \A s \in Derived :
        /\ (form[s].group = "WEDNESDAY" /\ SameWeekday(form[s].dosing_date, Ymd2Ord(2025, 5, 7)))
              => Schedule(s, 1, 23, 15)
        /\ (form[s].group = "SATURDAY" /\ SameWeekday(form[s].dosing_date, Ymd2Ord(2025, 5, 10)))
              => Schedule(s, 1, 26, 15)

\* C17's case: the Wednesday 2025-06-04 gives 2025-06-03, 2025-05-12 and
\* 2025-06-19, and a Saturday anchor has been derived as well
C17_Witness ==
    /\ \E s \in Derived :
          /\ form[s].group = "WEDNESDAY"
          /\ form[s].dosing_date = Ymd2Ord(2025, 6, 4)
          /\ Strftime(form[s].pre_dosing_date) = <<2025, 6, 3>>
          /\ Strftime(form[s].baseline_date) = <<2025, 5, 12>>
          /\ Strftime(form[s].follow_up_date) = <<2025, 6, 19>>
    /\ \E s \in Derived :
          /\ form[s].group = "SATURDAY"
          /\ SameWeekday(form[s].dosing_date, Ymd2Ord(2025, 5, 10))

---------------------------------------------------------------------------
(* Properties of the availability queries (specification SpecQuery) *)

\* the sessions holding the results of the queries
Queried == {s \in Sessions : form[s].pc = "queried"}

\* the labels in the fixed order Daytime, Evening, less those of held
FreeLabels(held) ==
    (IF "Daytime" \in held THEN <<>> ELSE <<"Daytime">>) \o
    (IF "Evening" \in held THEN <<>> ELSE <<"Evening">>)

\* the labels Active bookings hold for the pre-dosing visit on date d
PreHeld(d) ==
    {t \in Times : \E i \in 1..Len(bookings) :
        /\ bookings[i].booking_status = "Active"
        /\ bookings[i].pre_dosing_date = Strftime(d)
        /\ bookings[i].pre_dosing_time = t}

\* the labels Active bookings hold for the follow-up visit on date d
FollowHeld(d) ==
    {t \in Times : \E i \in 1..Len(bookings) :
        /\ bookings[i].booking_status = "Active"
        /\ bookings[i].follow_up_date = Strftime(d)
        /\ bookings[i].follow_up_time = t}

\* C18: get_available_pre_dosing_times and get_available_follow_up_times
\* return, in the order Daytime, Evening, exactly the labels no Active booking
\* holds for that visit on that date; Cancelled bookings are ignored and the
\* result is the empty list when both labels are taken
C18_AvailableTimesExact ==
    \A s \in Queried :
        /\ form[s].pre_times = FreeLabels(PreHeld(form[s].pre_dosing_date))
        /\ form[s].follow_times = FreeLabels(FollowHeld(form[s].follow_up_date))

\* C18's case: one session was returned two empty lists, both labels of both
\* visits being taken; the other was returned both pre-dosing labels for a
\* date on which a Cancelled booking holds one
C18_Witness ==
    /\ \E s \in Queried : form[s].pre_times = <<>> /\ form[s].follow_times = <<>>
    /\ \E s \in Queried :
          /\ form[s].pre_times = <<"Daytime", "Evening">>
          /\ \E i \in 1..Len(bookings) :
                /\ bookings[i].booking_status = "Cancelled"
                /\ bookings[i].pre_dosing_date = Strftime(form[s].pre_dosing_date)

\* an Active booking holds the baseline slot (date d, label)
BaselineHeld(d, label) ==
    \E i \in 1..Len(bookings) :
        /\ bookings[i].booking_status = "Active"
        /\ bookings[i].baseline_date = Strftime(d)
        /\ bookings[i].baseline_time = label

\* C19: check_baseline_availability(date, group) is true if and only if no
\* Active booking has that baseline_date with the group's label, Daytime for
\* the Wednesday group and Evening for the Saturday group
C19_BaselineAvailabilityExact ==
    \A s \in Queried :
        form[s].baseline_available <=>
            ~BaselineHeld(form[s].baseline_date,
                          IF form[s].group = "WEDNESDAY" THEN "Daytime" ELSE "Evening")

\* C19's case: the slot is available to one group while an Active booking of
\* the other group holds the same Monday, and unavailable to that other group
C19_Witness ==
    /\ \E s \in Queried :
          /\ form[s].baseline_available
          /\ form[s].group = "WEDNESDAY"
          /\ BaselineHeld(form[s].baseline_date, "Evening")
    /\ \E s \in Queried :
          /\ ~form[s].baseline_available
          /\ form[s].group = "SATURDAY"

---------------------------------------------------------------------------
(* Properties of two instances on one worksheet (specification SpecTwo) *)

\* the queries and the duplicate check of an instance whose bookings are bk
\* reflect every Active booking committed to the worksheet
ReflectsStore(bk) ==
    \A i \in 1..Len(sheetRows) :
        sheetRows[i].booking_status = "Active" =>
            /\ Strptime(sheetRows[i].dosing_date) \notin Range(get_dosing_dates(bk, sheetRows[i].group))
            /\ \A a \in ValidCallArgs :
                  a.participant_id = sheetRows[i].participant_id =>
                      ~book_participant(bk, sheetRows, sheet, a, FALSE).ok

\* C21: a booking appended to the shared store by one instance is seen by the
\* next availability query or book_participant call of any other instance
C21_InstancesReflectStore ==
    ReflectsStore(bookings) /\ ReflectsStore(other)

---------------------------------------------------------------------------
(* Properties of cancel_booking (specifications SpecFaults and Spec) *)

\* what cancel_booking would return and leave in this state
CancelAttempt(pid, reason, fault) ==
    cancel_booking(bookings, sheetRows, sheet, pid, reason, "T1", fault)

\* C22: every failing cancel_booking call (unknown participant_id, no store
\* connection, row not found in the store, a sheet call raising) leaves every
\* in-memory booking record unchanged
C22_FailedCancelChangesNothing ==
    \A pid \in PIDs, reason \in Reasons, fault \in CancelFaults :
        ~CancelAttempt(pid, reason, fault).ok =>
            CancelAttempt(pid, reason, fault).bookings = bookings

\* C22's case: sheet.update has just raised in a cancel_booking call for a
\* participant whose booking is still Active
C22_Witness ==
    /\ ret = [ok |-> FALSE, msg |-> <<"Error updating booking in sheet">>]
    /\ \E i \in 1..Len(bookings) : bookings[i].booking_status = "Active"
    /\ \E i \in 1..Len(bookings) : bookings[i].booking_status = "Cancelled"

\* C23: whenever cancel_booking(participant_id, reason) returns success, that
\* participant_id has no Active booking afterwards
C23_CancelLeavesNoActive ==
    [][\A pid \in PIDs, reason \in Reasons, now \in Stamps :
          (CancelStep(pid, reason, now, "none") /\ ret'.ok) =>
              ~ \E i \in 1..Len(bookings') :
                    /\ bookings'[i].participant_id = pid
                    /\ bookings'[i].booking_status = "Active"]_vars

\* rows r and r2 differ at most in booking_status, notes and cancellation_time
OnlyCancelFieldsDiffer(r, r2) ==
    /\ DOMAIN r2 = DOMAIN r
    /\ \A f \in DOMAIN r \ {"booking_status", "notes", "cancellation_time"} : r2[f] = r[f]

\* q2 is q with one record of participant pid cancelled and nothing else
\* changed
OneRecordCancelled(q, q2, pid) ==
    /\ Len(q2) = Len(q)
    /\ \E idx \in 1..Len(q) :
          /\ q[idx].participant_id = pid
          /\ q2[idx].booking_status = "Cancelled"
          /\ OnlyCancelFieldsDiffer(q[idx], q2[idx])
          /\ \A i \in 1..Len(q) \ {idx} : q2[i] = q[i]

\* C24: a successful cancel_booking changes only booking_status, notes and
\* cancellation_time of one record of the participant, in the bookings and in
\* the store; no record is removed and no other record changes
C24_CancelChangesOneRecord ==
    \A pid \in PIDs, reason \in Reasons :
        CancelAttempt(pid, reason, "none").ok =>
            /\ OneRecordCancelled(bookings, CancelAttempt(pid, reason, "none").bookings, pid)
            /\ OneRecordCancelled(sheetRows, CancelAttempt(pid, reason, "none").sheetRows, pid)

\* C24's case: a cancel_booking call has just succeeded on bookings that hold
\* the Cancelled record next to an Active record of another participant
C24_Witness ==
    /\ ret = [ok |-> TRUE, msg |-> <<"Booking cancelled successfully">>]
    /\ \E i, j \in 1..Len(bookings) :
          /\ bookings[i].booking_status = "Cancelled"
          /\ bookings[j].booking_status = "Active"
          /\ bookings[i].participant_id # bookings[j].participant_id

---------------------------------------------------------------------------
(* Properties of the bookings against the store (specification SpecFaults) *)

\* C25: with a connected store, after any sequence of calls, failing ones
\* included, the in-memory bookings and the data rows of the store hold the
\* same records with the same status
C25_MemoryMatchesStore ==
    sheet => bookings = sheetRows

---------------------------------------------------------------------------
(* Properties of the offered dosing dates (specification SpecQuery) *)

\* the arguments the form builds from dosing date d it offers to group
OfferedArgs(pid, group, d) ==
    Args(pid, group, get_baseline_date(d), get_pre_scan_date(d), d, get_follow_up_date(d, group), "Daytime", "Evening")

\* C26: the schedule derived from every date get_dosing_dates(group) returns
\* is accepted by _validate_booking for that group, so a booking built from
\* offered dates is never rejected as 'Invalid booking dates'
C26_OfferedDatesValid ==
    \A s \in Queried :
        \A d \in Range(form[s].dosing_dates) :
            /\ _validate_booking(get_baseline_date(d), get_pre_scan_date(d), d, get_follow_up_date(d, form[s].group), form[s].group)
            /\ book_participant(bookings, sheetRows, sheet, OfferedArgs(SessionPid(s), form[s].group, d), FALSE).msg
                  # <<"Invalid booking dates">>

\* C26's case: the two sessions were offered the dates of either group, up to
\* the last Wednesday and the last Saturday of the horizon, one date of each
\* group being held by an Active booking and left out
C26_Witness ==
    /\ \E s \in Queried :
          /\ form[s].group = "WEDNESDAY"
          /\ Ymd2Ord(2025, 11, 26) \in Range(form[s].dosing_dates)
          /\ Ymd2Ord(2025, 5, 7) \notin Range(form[s].dosing_dates)
    /\ \E s \in Queried :
          /\ form[s].group = "SATURDAY"
          /\ Ymd2Ord(2025, 11, 29) \in Range(form[s].dosing_dates)
          /\ Ymd2Ord(2025, 5, 10) \notin Range(form[s].dosing_dates)

---------------------------------------------------------------------------
(* Properties of the records and of reset_all_bookings (specification Spec) *)

\* the columns of a record that the model keeps
RecordFields ==
    {"participant_id", "group", "baseline_date", "baseline_time", "pre_dosing_date",
     "pre_dosing_time", "dosing_date", "dosing_time", "follow_up_date", "follow_up_time",
     "booking_status", "notes", "cancellation_time"}

\* record r is whole, with the fixed dosing_time and the baseline_time of its
\* group, and is Active or Cancelled
WellFormed(r) ==
    /\ DOMAIN r = RecordFields
    /\ r.booking_status \in {"Active", "Cancelled"}
    /\ r.dosing_time = "All Day"
    /\ r.baseline_time = IF r.group = "WEDNESDAY" THEN "Daytime" ELSE "Evening"

\* record r is as book_participant creates it
AsCreated(r) ==
    /\ WellFormed(r)
    /\ r.booking_status = "Active"
    /\ r.cancellation_time = ""
    /\ r.notes = <<>>

\* C27: every record book_participant creates is whole, Active, with
\* dosing_time 'All Day', empty cancellation_time and the baseline_time of its
\* group; in every reachable state each record is Active or Cancelled
C27_RecordsWellFormed ==
    /\ \A i \in 1..Len(bookings) :
          /\ WellFormed(bookings[i])
          /\ bookings[i].booking_status = "Active" => AsCreated(bookings[i])
    /\ ret.msg = <<"Booking successful">> =>
          /\ bookings # <<>>
          /\ AsCreated(bookings[Len(bookings)])

\* C27's case: book_participant has just created a record of the Saturday
\* group, after a record of the Wednesday group that is now Cancelled
C27_Witness ==
    /\ ret.msg = <<"Booking successful">>
    /\ Len(bookings) >= 2
    /\ bookings[Len(bookings)].group = "SATURDAY"
    /\ bookings[Len(bookings)].baseline_time = "Evening"
    /\ \E i \in 1..Len(bookings) :
          /\ bookings[i].group = "WEDNESDAY"
          /\ bookings[i].booking_status = "Cancelled"

\* C28: after a successful reset_all_bookings there are no bookings, so
\* get_dosing_dates returns every horizon date of the group's weekday and any
\* participant_id can be booked; with no store connection reset_all_bookings
\* returns failure and leaves the bookings unchanged
C28_ResetClears ==
    /\ ret.msg = <<"All bookings have been reset successfully">> =>
          /\ bookings = <<>>
          /\ \A group \in Groups :
                Range(get_dosing_dates(bookings, group)) =
                    {d \in Horizon : SameWeekday(d, IF group = "WEDNESDAY" THEN Ymd2Ord(2025, 5, 7) ELSE Ymd2Ord(2025, 5, 10))}
          /\ \A a \in ValidCallArgs : Attempt(a).ok
    /\ ~sheet =>
          /\ ~reset_all_bookings(bookings, sheetRows, sheet, "none").ok
          /\ reset_all_bookings(bookings, sheetRows, sheet, "none").bookings = bookings

\* C28's case: reset_all_bookings has just returned success on a connected
\* store
C28_Witness ==
    /\ sheet
    /\ ret = [ok |-> TRUE, msg |-> <<"All bookings have been reset successfully">>]
    /\ sheetRows = <<>>

===========================================================================
